---- MODULE Spec2Model ----
(***************************************************************************)
(* Model of src/rust/src/main.rs: the wallet set-up (create_or_load_wallet),*)
(* the funding / sending glue, and the reconstruction of the confirmed      *)
(* transaction (inputs resolved through prior transactions, outputs         *)
(* classified, fee, report text, report file).                              *)
(*                                                                          *)
(* Option<T> is modelled as a sequence: None is <<>> and Some(x) is <<x>>.  *)
(* Amounts are satoshi counts (bitcoin::Amount); the u64 range is narrowed  *)
(* to 0..MaxSat so that the checked arithmetic of Amount can overflow.      *)
(* The report (output_string) is the sequence of its lines, each of which   *)
(* the program terminates with a newline.                                   *)
(***************************************************************************)
EXTENDS Integers, Sequences, FiniteSets, TLC

\* ------------------------------------------------------------------ bounds
\* Largest number of inputs / outputs of the transaction the node returns.
MaxIn == 2
MaxOut == 2
\* Largest Amount (stands for u64::MAX): checked_add beyond it panics.
MaxSat == 900000000

\* ------------------------------------------------------------- Option<T>
None == <<>>
Some(x) == <<x>>
IsSome(o) == o # <<>>
Unwrap(o) == o[1]

Range(s) == {s[k] : k \in 1..Len(s)}

\* ------------------------------------------------------------ the ledger
\* Address the Trader wallet hands out (line 107) and other owners.
trader_address == "bcrt1qtrader"
AddrA == "bcrt1qminera"
AddrB == "bcrt1qminerb"

TargetTxid == "txid-t"
ConfirmingBlock == "blockhash-b"

\* Transactions already on the chain that an input may spend from.  "p3" is
\* not known to the node.  Output positions are 0-based as in the RPC.
PriorTxs ==
    [p \in {"p1", "p2"} |->
        IF p = "p1"
        THEN << [value |-> 500000000, address |-> Some(AddrA)],
                [value |-> 200000000, address |-> None],
                [value |-> 300000000, address |-> Some(AddrA)] >>
        ELSE << [value |-> 500000000, address |-> Some(AddrB)] >>]

\* The inputs (vin) the node may report: (txid, vout), either possibly absent.
InputRefs ==
    { [txid |-> None,       vout |-> None],
      [txid |-> None,       vout |-> Some(0)],
      [txid |-> Some("p1"), vout |-> None],
      [txid |-> Some("p1"), vout |-> Some(0)],
      [txid |-> Some("p1"), vout |-> Some(1)],
      [txid |-> Some("p1"), vout |-> Some(2)],
      [txid |-> Some("p2"), vout |-> Some(0)],
      [txid |-> Some("p2"), vout |-> Some(1)],
      [txid |-> Some("p3"), vout |-> Some(0)] }

\* The outputs (vout) the node may report.
Outputs ==
    { [value |-> 200000000, address |-> Some(trader_address)],
      [value |-> 100000000, address |-> Some(trader_address)],
      [value |-> 299990000, address |-> Some(AddrA)],
      [value |-> 150000000, address |-> Some(AddrB)],
      [value |-> 50000000,  address |-> None] }

SeqsUpTo(S, n) == UNION {[1..k -> S] : k \in 0..n}

Transactions == [vin : SeqsUpTo(InputRefs, MaxIn), vout : SeqsUpTo(Outputs, MaxOut)]

WalletNames == <<"Miner", "Trader">>

VARIABLES
    pc,                     \* position in main / create_or_load_wallet
    err,                    \* None, or the error / panic main ended with
    node_wallets,           \* node: wallet name -> "absent" | "on_disk" | "loaded"
    wallet_name,            \* argument of the current create_or_load_wallet call
    load_err,               \* None, or the reason load_wallet failed
    chain_height,           \* node: height of the chain tip
    ledger_tx,              \* node: None, or the transaction send_to_address made
    tx_info,                \* None, or the response of the scoped fetch
    block_height,
    lookups,                \* RPC lookups issued by the resolution, in order
    i,                      \* position of the `for vin` loop (1-based)
    total_input_value,
    miner_input_addresses,  \* HashSet: its elements, without duplicates
    input_addresses_str,
    total_output_value,
    trader_output,
    miner_change_output,
    transaction_fee,
    output_string,
    out_file,               \* "untouched" | "created" | "partial" | "written"
    file_content,           \* lines of ../out.txt once written
    prev_report             \* None, or the report of the previous resolution

vars == << pc, err, node_wallets, wallet_name, load_err, chain_height, ledger_tx,
           tx_info, block_height, lookups, i, total_input_value,
           miner_input_addresses, input_addresses_str, total_output_value,
           trader_output, miner_change_output, transaction_fee, output_string,
           out_file, file_content, prev_report >>

nodeVars == << node_wallets, chain_height, ledger_tx >>
walletVars == << wallet_name, load_err >>
inputVars == << i, total_input_value, miner_input_addresses, input_addresses_str >>
outputVars == << total_output_value, trader_output, miner_change_output >>
reportVars == << transaction_fee, output_string >>
fileVars == << out_file, file_content, prev_report >>

\* ------------------------------------------------------- pure operations
\* Amount += Amount (lines 147, 162): checked_add, a panic (None) on overflow.
AmountAdd(a, b) == IF a + b > MaxSat THEN None ELSE Some(a + b)

\* Faulty variant of AmountSub: a signed subtraction that never panics.
AmountSubUnchecked(a, b) == Some(a - b)

\* Amount - Amount (line 175): checked_sub, a panic (None) below zero.
AmountSub(a, b) == IF a < b THEN None ELSE Some(a - b)

RECURSIVE ZeroPad(_, _)
ZeroPad(str, width) == IF Len(str) >= width THEN str ELSE ZeroPad("0" \o str, width)

RECURSIVE FracDigits(_, _)
FracDigits(frac, width) ==
    IF frac % 10 = 0 /\ width > 1
    THEN FracDigits(frac \div 10, width - 1)
    ELSE ZeroPad(ToString(frac), width)

\* format!("{}", amount.to_btc()) (lines 182, 186, 191, 197): the amount in
\* BTC as an f64, printed with the fewest digits: no fraction when whole,
\* otherwise the 8 decimals without their trailing zeros.
BtcString(sat) ==
    LET whole == sat \div 100000000
        frac  == sat % 100000000
    IN  IF frac = 0
        THEN ToString(whole)
        ELSE ToString(whole) \o "." \o FracDigits(frac, 8)

RECURSIVE Join(_, _)
Join(strs, sep) ==
    IF Len(strs) = 0 THEN ""
    ELSE IF Len(strs) = 1 THEN strs[1]
    ELSE strs[1] \o sep \o Join(Tail(strs), sep)

\* Faulty variant of HashSetInsert: a Vec::push, which keeps duplicates.
HashSetInsertAlways(set, a) == Append(set, a)

\* HashSet::insert (line 149): an element already present is not added again.
HashSetInsert(set, a) == IF a \in Range(set) THEN set ELSE Append(set, a)

\* HashSet::iter (line 153): the elements in an order that depends on the
\* per-process random hash seed, so any order of the elements.
HashSetIterOrders(set) ==
    { [k \in 1..Len(set) |-> set[p[k]]] :
        p \in { q \in [1..Len(set) -> 1..Len(set)] : Range(q) = 1..Len(set) } }

\* Faulty variant of SpendsPriorOutput: only the output index is required.
SpendsPriorOutputByIndexOnly(vin) == IsSome(vin.vout)

\* The `if let (Some(prev_txid), Some(prev_vout))` of line 142.
SpendsPriorOutput(vin) == IsSome(vin.txid) /\ IsSome(vin.vout)

\* rpc.get_raw_transaction_info(&prev_txid, None) (line 144) on a reachable
\* node: Some(outputs) when the node knows the transaction, else None (Err).
GetPriorTx(txid) ==
    IF IsSome(txid) /\ Unwrap(txid) \in DOMAIN PriorTxs
    THEN Some(PriorTxs[Unwrap(txid)])
    ELSE None

\* Faulty variant of OutputValueAdded: the addition placed inside the
\* `if let Some(output_address)`, so an addressless output adds nothing.
OutputValueAddedIfAddressed(vout) == IF IsSome(vout.address) THEN vout.value ELSE 0

\* What line 162 adds to total_output_value for one output.
OutputValueAdded(vout) == vout.value

\* Faulty variant of ClassifyOutput: the first output to the recipient is kept.
ClassifyOutputFirstRecipient(acc, vout) ==
    IF IsSome(vout.address)
    THEN IF Unwrap(vout.address) = trader_address
         THEN IF IsSome(acc.trader) THEN acc
              ELSE [acc EXCEPT !.trader = Some([amount |-> vout.value, address |-> Unwrap(vout.address)])]
         ELSE [acc EXCEPT !.change = Some([amount |-> vout.value, address |-> Unwrap(vout.address)])]
    ELSE acc

\* Faulty variant of ClassifyOutput: the first change output is kept.
ClassifyOutputFirstChange(acc, vout) ==
    IF IsSome(vout.address)
    THEN IF Unwrap(vout.address) = trader_address
         THEN [acc EXCEPT !.trader = Some([amount |-> vout.value, address |-> Unwrap(vout.address)])]
         ELSE IF IsSome(acc.change) THEN acc
              ELSE [acc EXCEPT !.change = Some([amount |-> vout.value, address |-> Unwrap(vout.address)])]
    ELSE acc

\* One pass of the `for vout` loop body below line 162 (lines 164-171) on the
\* pair (trader_output, miner_change_output).
ClassifyOutput(acc, vout) ==
    IF IsSome(vout.address)
    THEN IF Unwrap(vout.address) = trader_address
         THEN [acc EXCEPT !.trader = Some([amount |-> vout.value, address |-> Unwrap(vout.address)])]
         ELSE [acc EXCEPT !.change = Some([amount |-> vout.value, address |-> Unwrap(vout.address)])]
    ELSE acc

\* The whole `for vout` loop (lines 157-172) from the state in acc; total is
\* None once an addition has panicked.
RECURSIVE ScanOutputs(_, _)
ScanOutputs(acc, vouts) ==
    IF Len(vouts) = 0 \/ ~IsSome(acc.total) THEN acc
    ELSE LET sum  == AmountAdd(Unwrap(acc.total), OutputValueAdded(Head(vouts)))
             next == [ClassifyOutput(acc, Head(vouts)) EXCEPT !.total = sum]
         IN  ScanOutputs(next, Tail(vouts))

\* Lines 184-187: the Trader's lines, present only with a recipient output.
TraderLines(t) ==
    IF IsSome(t)
    THEN << "Trader's Output Address: " \o Unwrap(t).address,
            "Trader's Output Amount (in BTC): " \o BtcString(Unwrap(t).amount) >>
    ELSE << >>

\* Faulty variant of ChangeLines: without a change output the lines are left
\* out, as the Trader's lines are.
ChangeLinesOmittedWhenNone(c) ==
    IF IsSome(c)
    THEN << "Miner's Change Address: " \o Unwrap(c).address,
            "Miner's Change Amount (in BTC): " \o BtcString(Unwrap(c).amount) >>
    ELSE << >>

\* Lines 189-195: the change lines.
ChangeLines(c) ==
    IF IsSome(c)
    THEN << "Miner's Change Address: " \o Unwrap(c).address,
            "Miner's Change Amount (in BTC): " \o BtcString(Unwrap(c).amount) >>
    ELSE << "Miner's Change Address: None",
            "Miner's Change Amount (in BTC): 0.0" >>

\* Lines 178-199: the report, line by line.
BuildReport(info, addrs, tin, t, c, fee, height) ==
    << "Transaction ID (txid): " \o info.txid,
       "Miner's Input Address: " \o addrs,
       "Miner's Input Amount (in BTC): " \o BtcString(tin) >>
    \o TraderLines(t)
    \o ChangeLines(c)
    \o << "Transaction Fees (in BTC): " \o BtcString(fee),
          "Block height at which the transaction is confirmed: " \o ToString(height),
          "Block hash at which the transaction is confirmed: " \o Unwrap(info.blockhash) >>

\* ------------------------------------------------------------------ Init
Init ==
    /\ pc = "connect"
    /\ err = None
    /\ node_wallets \in [Range(WalletNames) -> {"absent", "on_disk", "loaded"}]
    /\ wallet_name = WalletNames[1]
    /\ load_err = None
    /\ chain_height \in {0, 101}
    /\ ledger_tx = None
    /\ tx_info = None
    /\ block_height = 0
    /\ lookups = << >>
    /\ i = 1
    /\ total_input_value = 0
    /\ miner_input_addresses = << >>
    /\ input_addresses_str = ""
    /\ total_output_value = 0
    /\ trader_output = None
    /\ miner_change_output = None
    /\ transaction_fee = 0
    /\ output_string = << >>
    /\ out_file = "untouched"
    /\ file_content = << >>
    /\ prev_report = None

resolveVars == << tx_info, block_height, lookups, inputVars, outputVars, reportVars >>

\* `?` on an Err, or a panic: main ends, nothing else changes.
Abort(how, what) ==
    /\ pc' = how
    /\ err' = Some(what)

\* ------------------------------------------------------ wallets and glue
\* Lines 67-74: Client::new and get_blockchain_info()?.
Connect ==
    /\ pc = "connect"
    /\ \/ pc' = "list_wallets" /\ err' = err
       \/ Abort("failed", "get_blockchain_info")
    /\ UNCHANGED << nodeVars, walletVars, resolveVars, fileVars >>

\* Where main continues after create_or_load_wallet returned Ok (lines 79-80).
AfterWallet(name) == IF name = WalletNames[1] THEN "list_wallets" ELSE "fund"
NextWallet(name) == IF name = WalletNames[1] THEN WalletNames[2] ELSE name

\* Lines 41-44: list_wallets()? and the early return for a loaded wallet.
ListWallets ==
    /\ pc = "list_wallets"
    /\ \/ /\ Abort("failed", "list_wallets")
          /\ UNCHANGED walletVars
       \/ /\ node_wallets[wallet_name] = "loaded"
          /\ pc' = AfterWallet(wallet_name)
          /\ wallet_name' = NextWallet(wallet_name)
          /\ UNCHANGED << err, load_err >>
       \/ /\ node_wallets[wallet_name] # "loaded"
          /\ pc' = "load_wallet"
          /\ UNCHANGED << err, walletVars >>
    /\ UNCHANGED << nodeVars, resolveVars, fileVars >>

\* The reasons rpc.load_wallet can fail with for a wallet in the given state.
LoadErrors(state) ==
    IF state = "absent" THEN {"not_found", "transport"} ELSE {"transport"}

\* The match of lines 47-62 on an Err(e): the first `Err(e)` arm (line 53)
\* takes every error, so the arm of line 61 is never taken.
LoadErrCreates(e) == TRUE

\* Lines 47-54 and 61: rpc.load_wallet and the match on its result.
LoadWallet ==
    /\ pc = "load_wallet"
    /\ \/ /\ node_wallets[wallet_name] = "on_disk"
          /\ node_wallets' = [node_wallets EXCEPT ![wallet_name] = "loaded"]
          /\ pc' = AfterWallet(wallet_name)
          /\ wallet_name' = NextWallet(wallet_name)
          /\ UNCHANGED << err, load_err >>
       \/ \E e \in LoadErrors(node_wallets[wallet_name]) :
            /\ load_err' = Some(e)
            /\ IF LoadErrCreates(e)
               THEN pc' = "create_wallet" /\ err' = err
               ELSE Abort("failed", "load_wallet")
            /\ UNCHANGED << node_wallets, wallet_name >>
    /\ UNCHANGED << chain_height, ledger_tx, resolveVars, fileVars >>

\* Lines 55-57: rpc.create_wallet(...)?; the node refuses a name it has on disk.
CreateWallet ==
    /\ pc = "create_wallet"
    /\ \/ /\ node_wallets[wallet_name] = "absent"
          /\ node_wallets' = [node_wallets EXCEPT ![wallet_name] = "loaded"]
          /\ pc' = AfterWallet(wallet_name)
          /\ wallet_name' = NextWallet(wallet_name)
          /\ load_err' = None
          /\ err' = err
       \/ /\ Abort("failed", "create_wallet")
          /\ UNCHANGED << node_wallets, walletVars >>
    /\ UNCHANGED << chain_height, ledger_tx, resolveVars, fileVars >>

\* Lines 82-104: the wallet clients, a new Miner address, and 101 blocks when
\* the Miner's balance is below 50 BTC (no coinbase has matured yet).
Fund ==
    /\ pc = "fund"
    /\ \/ /\ pc' = "send"
          /\ err' = err
          /\ chain_height' = IF chain_height < 101 THEN chain_height + 101 ELSE chain_height
       \/ /\ Abort("failed", "fund")
          /\ UNCHANGED chain_height
    /\ UNCHANGED << node_wallets, ledger_tx, walletVars, resolveVars, fileVars >>

\* Lines 107-123: a new Trader address, send_to_address and the mempool check.
\* The node builds the transaction; its inputs and outputs are the node's choice.
Send ==
    /\ pc = "send"
    /\ \/ /\ \E tx \in Transactions : ledger_tx' = Some(tx)
          /\ pc' = "mine"
          /\ err' = err
       \/ /\ Abort("failed", "send_to_address")
          /\ UNCHANGED ledger_tx
    /\ UNCHANGED << node_wallets, chain_height, walletVars, resolveVars, fileVars >>

\* Line 126: one more block, which confirms the transaction.
Mine ==
    /\ pc = "mine"
    /\ \/ /\ chain_height' = chain_height + 1
          /\ pc' = "fetch_tx"
          /\ err' = err
       \/ /\ Abort("failed", "generate_to_address")
          /\ UNCHANGED chain_height
    /\ UNCHANGED << node_wallets, ledger_tx, walletVars, resolveVars, fileVars >>

\* ------------------------------------------------------------ resolution
Lookup(call, id, ok) == [call |-> call, id |-> id, ok |-> ok]

\* Line 130-131: the transaction, fetched scoped to the confirming block.
FetchTransaction ==
    /\ pc = "fetch_tx"
    /\ \/ /\ \E bh \in {None, Some(ConfirmingBlock)} :
                tx_info' = Some([txid      |-> TargetTxid,
                                 blockhash |-> bh,
                                 vin       |-> Unwrap(ledger_tx).vin,
                                 vout      |-> Unwrap(ledger_tx).vout])
          /\ lookups' = Append(lookups, Lookup("getrawtransaction", Some(TargetTxid), TRUE))
          /\ pc' = "fetch_header"
          /\ err' = err
       \/ /\ lookups' = Append(lookups, Lookup("getrawtransaction", Some(TargetTxid), FALSE))
          /\ Abort("failed", "get_raw_transaction_info")
          /\ UNCHANGED tx_info
    /\ UNCHANGED << nodeVars, walletVars, block_height, inputVars, outputVars,
                    reportVars, fileVars >>

\* Lines 134-135: blockhash.unwrap(), then the header of that block.
FetchBlockHeader ==
    /\ pc = "fetch_header"
    /\ IF ~IsSome(Unwrap(tx_info).blockhash)
       THEN /\ Abort("panicked", "unwrap on a None blockhash")
            /\ UNCHANGED << lookups, block_height >>
       ELSE \/ /\ lookups' = Append(lookups, Lookup("getblockheader", Unwrap(tx_info).blockhash, TRUE))
               /\ block_height' = chain_height
               /\ pc' = "inputs"
               /\ err' = err
            \/ /\ lookups' = Append(lookups, Lookup("getblockheader", Unwrap(tx_info).blockhash, FALSE))
               /\ Abort("failed", "get_block_header_info")
               /\ UNCHANGED block_height
    /\ UNCHANGED << nodeVars, walletVars, tx_info, inputVars, outputVars,
                    reportVars, fileVars >>

\* Faulty variant of ResolveStep: a failed prior-transaction fetch is
\* swallowed and the loop goes on with the next input.
ResolveStepSwallowingErr(vin, reachable, st) ==
    IF ~SpendsPriorOutput(vin)
    THEN [st EXCEPT !.pc = "inputs"]
    ELSE LET r   == IF reachable THEN GetPriorTx(vin.txid) ELSE None
             log == Append(st.lookups, Lookup("getrawtransaction", vin.txid, IsSome(r)))
         IN  IF ~IsSome(r)
             THEN [st EXCEPT !.pc = "inputs", !.lookups = log]
             ELSE IF Unwrap(vin.vout) >= Len(Unwrap(r))
             THEN [st EXCEPT !.pc = "panicked", !.lookups = log,
                             !.err = Some("index out of bounds")]
             ELSE LET spent_output == Unwrap(r)[Unwrap(vin.vout) + 1]
                      sum == AmountAdd(st.total, spent_output.value)
                  IN  IF ~IsSome(sum)
                      THEN [st EXCEPT !.pc = "panicked", !.lookups = log,
                                      !.err = Some("Amount addition error")]
                      ELSE [st EXCEPT !.pc = "inputs", !.lookups = log,
                                      !.total = Unwrap(sum),
                                      !.addrs = IF IsSome(spent_output.address)
                                                THEN HashSetInsert(st.addrs, Unwrap(spent_output.address))
                                                ELSE st.addrs]

\* Lines 142-151: the body of the `for vin` loop for one input.  reachable is
\* whether the node answers the prior-transaction fetch; st holds
\* total_input_value, miner_input_addresses and the lookups so far.
ResolveStep(vin, reachable, st) ==
    IF ~SpendsPriorOutput(vin)
    THEN [st EXCEPT !.pc = "inputs"]
    ELSE LET r   == IF reachable THEN GetPriorTx(vin.txid) ELSE None
             log == Append(st.lookups, Lookup("getrawtransaction", vin.txid, IsSome(r)))
         IN  IF ~IsSome(r)
             THEN [st EXCEPT !.pc = "failed", !.lookups = log,
                             !.err = Some("get_raw_transaction_info")]
             ELSE IF Unwrap(vin.vout) >= Len(Unwrap(r))
             THEN [st EXCEPT !.pc = "panicked", !.lookups = log,
                             !.err = Some("index out of bounds")]
             ELSE LET spent_output == Unwrap(r)[Unwrap(vin.vout) + 1]
                      sum == AmountAdd(st.total, spent_output.value)
                  IN  IF ~IsSome(sum)
                      THEN [st EXCEPT !.pc = "panicked", !.lookups = log,
                                      !.err = Some("Amount addition error")]
                      ELSE [st EXCEPT !.pc = "inputs", !.lookups = log,
                                      !.total = Unwrap(sum),
                                      !.addrs = IF IsSome(spent_output.address)
                                                THEN HashSetInsert(st.addrs, Unwrap(spent_output.address))
                                                ELSE st.addrs]

\* Lines 141-152: one iteration of the `for vin` loop.
ResolveInput ==
    /\ pc = "inputs"
    /\ i <= Len(Unwrap(tx_info).vin)
    /\ \E reachable \in BOOLEAN :
         LET s == ResolveStep(Unwrap(tx_info).vin[i], reachable,
                              [pc |-> pc, err |-> err, lookups |-> lookups,
                               total |-> total_input_value,
                               addrs |-> miner_input_addresses])
         IN  /\ pc' = s.pc
             /\ err' = s.err
             /\ lookups' = s.lookups
             /\ total_input_value' = s.total
             /\ miner_input_addresses' = s.addrs
             /\ i' = IF s.pc = "inputs" THEN i + 1 ELSE i
    /\ UNCHANGED << nodeVars, walletVars, tx_info, block_height, input_addresses_str,
                    outputVars, reportVars, fileVars >>

\* Line 153: the addresses of the HashSet, in its iteration order, joined.
JoinInputAddresses ==
    /\ pc = "inputs"
    /\ i > Len(Unwrap(tx_info).vin)
    /\ \E order \in HashSetIterOrders(miner_input_addresses) :
         input_addresses_str' = Join(order, ", ")
    /\ pc' = "outputs"
    /\ UNCHANGED << err, nodeVars, walletVars, tx_info, block_height, lookups, i,
                    total_input_value, miner_input_addresses, outputVars,
                    reportVars, fileVars >>

\* Lines 157-172: the `for vout` loop.
ClassifyOutputs ==
    /\ pc = "outputs"
    /\ LET r == ScanOutputs([total |-> Some(0), trader |-> None, change |-> None],
                            Unwrap(tx_info).vout)
       IN  IF IsSome(r.total)
           THEN /\ total_output_value' = Unwrap(r.total)
                /\ trader_output' = r.trader
                /\ miner_change_output' = r.change
                /\ pc' = "fee"
                /\ err' = err
           ELSE /\ Abort("panicked", "Amount addition error")
                /\ UNCHANGED outputVars
    /\ UNCHANGED << nodeVars, walletVars, tx_info, block_height, lookups, inputVars,
                    reportVars, fileVars >>

\* Lines 175-199: the fee and the text of the report.
FeeAndReport ==
    /\ pc = "fee"
    /\ LET fee == AmountSub(total_input_value, total_output_value)
       IN  IF IsSome(fee)
           THEN /\ transaction_fee' = Unwrap(fee)
                /\ output_string' = BuildReport(Unwrap(tx_info), input_addresses_str,
                                                total_input_value, trader_output,
                                                miner_change_output, Unwrap(fee),
                                                block_height)
                /\ pc' = "create_file"
                /\ err' = err
           ELSE /\ Abort("panicked", "Amount subtraction error")
                /\ UNCHANGED reportVars
    /\ UNCHANGED << nodeVars, walletVars, tx_info, block_height, lookups, inputVars,
                    outputVars, fileVars >>

\* Lines 201-202: File::create(file_path)?, an empty file when it succeeds.
CreateFile ==
    /\ pc = "create_file"
    /\ \/ /\ out_file' = "created"
          /\ file_content' = << >>
          /\ pc' = "write_file"
          /\ err' = err
       \/ /\ Abort("failed", "File::create")
          /\ UNCHANGED << out_file, file_content >>
    /\ UNCHANGED << nodeVars, walletVars, resolveVars, prev_report >>

\* Lines 203-208: file.write_all(...)?; a failed write leaves a prefix.
WriteFile ==
    /\ pc = "write_file"
    /\ \/ /\ out_file' = "written"
          /\ file_content' = output_string
          /\ pc' = "done"
          /\ err' = err
       \/ /\ \E k \in 0..(Len(output_string) - 1) :
                file_content' = SubSeq(output_string, 1, k)
          /\ out_file' = "partial"
          /\ Abort("failed", "write_all")
    /\ UNCHANGED << nodeVars, walletVars, resolveVars, prev_report >>

\* The same (txid, blockhash, recipient) resolved again by a new process
\* against the unchanged ledger (lines 129-208): the locals start afresh and
\* the report of the finished resolution is kept for comparison.
Rerun ==
    /\ pc = "done"
    /\ prev_report' = Some(file_content)
    /\ pc' = "fetch_tx"
    /\ tx_info' = None
    /\ block_height' = 0
    /\ lookups' = << >>
    /\ i' = 1
    /\ total_input_value' = 0
    /\ miner_input_addresses' = << >>
    /\ input_addresses_str' = ""
    /\ total_output_value' = 0
    /\ trader_output' = None
    /\ miner_change_output' = None
    /\ transaction_fee' = 0
    /\ output_string' = << >>
    /\ out_file' = "untouched"
    /\ file_content' = << >>
    /\ UNCHANGED << err, nodeVars, walletVars >>

Next ==
    \/ Connect
    \/ ListWallets
    \/ LoadWallet
    \/ CreateWallet
    \/ Fund
    \/ Send
    \/ Mine
    \/ FetchTransaction
    \/ FetchBlockHeader
    \/ ResolveInput
    \/ JoinInputAddresses
    \/ ClassifyOutputs
    \/ FeeAndReport
    \/ CreateFile
    \/ WriteFile
    \/ Rerun

Spec == Init /\ [][Next]_vars

\* ------------------------------------------------- vocabulary of the claims
\* The transaction on the ledger, once the node has built it.
LedgerVin == Unwrap(ledger_tx).vin
LedgerVout == Unwrap(ledger_tx).vout

\* The report text exists: the fee was computed and the lines were built.
ReportBuilt == pc \in {"create_file", "write_file", "done"}
\* The `for vout` loop has run to its end.
OutputsScanned == pc = "fee" \/ ReportBuilt

RECURSIVE SumSeq(_)
SumSeq(ns) == IF Len(ns) = 0 THEN 0 ELSE Head(ns) + SumSeq(Tail(ns))

\* An input that names both a previous transaction and an output position.
HasPrevout(vin) == vin.txid # None /\ vin.vout # None
\* The output on the ledger that such an input spends.
Prevout(vin) == PriorTxs[vin.txid[1]][vin.vout[1] + 1]

SumOfOutputs == SumSeq([k \in 1..Len(LedgerVout) |-> LedgerVout[k].value])
SumOfPrevouts ==
    SumSeq([k \in 1..Len(LedgerVin) |->
              IF HasPrevout(LedgerVin[k]) THEN Prevout(LedgerVin[k]).value ELSE 0])

\* Positions of the outputs paying the known recipient / paying someone else.
RecipientPositions ==
    {k \in 1..Len(LedgerVout) : LedgerVout[k].address = Some(trader_address)}
ChangePositions ==
    {k \in 1..Len(LedgerVout) :
        LedgerVout[k].address # None /\ LedgerVout[k].address # Some(trader_address)}
Min(S) == CHOOSE m \in S : \A n \in S : m <= n
Max(S) == CHOOSE m \in S : \A n \in S : m >= n
Designated(k) == Some([amount |-> LedgerVout[k].value, address |-> LedgerVout[k].address[1]])

\* ---------------------------------------------------------------- claims

\* C1: once the resolution has produced its report, totalOutputValue is the
\* sum of the values of all outputs (addressless, recipient and change
\* alike), totalInputValue is the sum of the values of the prior outputs the
\* inputs reference, and the fee, in the variable and on the report's fee
\* line, is totalInputValue minus totalOutputValue.
C1_TotalsAndFee ==
    ReportBuilt =>
        /\ total_output_value = SumOfOutputs
        /\ total_input_value = SumOfPrevouts
        /\ transaction_fee = SumOfPrevouts - SumOfOutputs
        /\ output_string[Len(output_string) - 2]
             = "Transaction Fees (in BTC): " \o BtcString(SumOfPrevouts - SumOfOutputs)

\* C1 witness: one input of 500000000, outputs 200000000 (recipient) and
\* 299990000 (change), written with a fee of 10000 (0.0001 BTC).
C1_Witness ==
    /\ pc = "done"
    /\ LedgerVin = << [txid |-> Some("p1"), vout |-> Some(0)] >>
    /\ LedgerVout = << [value |-> 200000000, address |-> Some(trader_address)],
                       [value |-> 299990000, address |-> Some(AddrA)] >>
    /\ total_input_value = 500000000
    /\ total_output_value = 499990000
    /\ transaction_fee = 10000
    /\ file_content[8] = "Transaction Fees (in BTC): 0.0001"

\* C2: no report is written with a negative fee: whenever the report file
\* has been touched the input total is at least the output total, and a run
\* whose output total exceeds its input total has, once past the fee
\* computation, panicked with the report file still untouched.
C2_NoNegativeFeeReport ==
    /\ (out_file # "untouched" \/ ReportBuilt) =>
           total_input_value >= total_output_value /\ transaction_fee >= 0
    /\ (total_input_value < total_output_value /\ pc # "fee") =>
           pc = "panicked" /\ out_file = "untouched" /\ file_content = << >>

\* C2 witness: the outputs exceed the inputs and the run has panicked on the
\* subtraction, with no file.
C2_Witness ==
    /\ pc = "panicked"
    /\ err = Some("Amount subtraction error")
    /\ total_input_value < total_output_value
    /\ total_input_value > 0
    /\ out_file = "untouched"

\* The lookups a complete resolution issues, in order: the scoped fetch, the
\* header, then one unscoped fetch per input that references a prior output.
RECURSIVE PriorLookups(_)
PriorLookups(vins) ==
    IF Len(vins) = 0 THEN << >>
    ELSE (IF HasPrevout(Head(vins))
          THEN << Lookup("getrawtransaction", Head(vins).txid, TRUE) >>
          ELSE << >>) \o PriorLookups(Tail(vins))
AllLookups ==
    << Lookup("getrawtransaction", Some(TargetTxid), TRUE),
       Lookup("getblockheader", Some(ConfirmingBlock), TRUE) >> \o PriorLookups(LedgerVin)

LookupFailures ==
    { "get_raw_transaction_info", "get_block_header_info", "index out of bounds" }

\* C3: resolution is all-or-nothing.  A failed lookup (the scoped fetch, the
\* header fetch, a prior-transaction fetch) or a referenced output position
\* that does not exist ends the run at once: the failed lookup is the last
\* one issued (no retry), and the report file is neither created nor
\* written.  The file is touched only after every lookup of the resolution
\* was issued exactly once and succeeded.
C3_AllOrNothing ==
    /\ \A k \in 1..Len(lookups) :
         ~lookups[k].ok =>
            /\ k = Len(lookups)
            /\ pc = "failed"
            /\ out_file = "untouched"
            /\ file_content = << >>
    /\ (IsSome(err) /\ Unwrap(err) \in LookupFailures) =>
            /\ pc \in {"failed", "panicked"}
            /\ out_file = "untouched"
            /\ file_content = << >>
    /\ out_file # "untouched" => lookups = AllLookups

\* C3 witness: the second prior-transaction fetch failed after three
\* successful lookups, and there is no file.
C3_Witness ==
    /\ pc = "failed"
    /\ err = Some("get_raw_transaction_info")
    /\ Len(lookups) = 4
    /\ lookups[3].ok
    /\ ~lookups[4].ok
    /\ out_file = "untouched"

\* C4: resolving the same (txid, blockhash, recipient) again against the
\* unchanged ledger writes the same report text as the resolution before.
C4_SameReportTwice ==
    (pc = "done" /\ IsSome(prev_report)) => file_content = Unwrap(prev_report)

\* C5: an input without a previous txid or without a previous output index
\* is skipped: the step over it leaves totalInputValue and the address set
\* as they were, issues no lookup, and moves on to the next input.
C5_CoinbaseSkipped ==
    [][ ( /\ pc = "inputs"
          /\ i <= Len(LedgerVin)
          /\ ~HasPrevout(LedgerVin[i]) )
        => ( /\ total_input_value' = total_input_value
             /\ miner_input_addresses' = miner_input_addresses
             /\ lookups' = lookups
             /\ pc' = "inputs"
             /\ i' = i + 1 ) ]_vars

\* C5 witness: a coinbase-style input was skipped after an input that spent
\* a prior output: the total and the lookups are those of the first alone.
C5_Witness ==
    /\ pc = "inputs"
    /\ i = 3
    /\ HasPrevout(LedgerVin[1])
    /\ LedgerVin[2] = [txid |-> None, vout |-> None]
    /\ total_input_value = Prevout(LedgerVin[1]).value
    /\ Len(lookups) = 3
    /\ Len(miner_input_addresses) <= 1

\* The distinct owner addresses of the outputs the inputs spend.
OwnerAddresses ==
    { Prevout(LedgerVin[k]).address[1] :
        k \in { j \in 1..Len(LedgerVin) :
                  HasPrevout(LedgerVin[j]) /\ Prevout(LedgerVin[j]).address # None } }
\* Every way of writing a set of addresses once each, joined by ", ".
JoinedOnce(S) ==
    { Join(order, ", ") : order \in { q \in [1..Cardinality(S) -> S] : Range(q) = S } }
AfterJoin == pc = "outputs" \/ OutputsScanned

\* C6: the joined input-address string holds every distinct owner address of
\* the spent outputs exactly once, however many inputs spend outputs of that
\* owner, while the value of every such input is in totalInputValue.
C6_AddressesDeduplicated ==
    AfterJoin =>
        /\ input_addresses_str \in JoinedOnce(OwnerAddresses)
        /\ total_input_value = SumOfPrevouts

\* C6 witness: two inputs spend two outputs of the same owner; the string is
\* that one address and the total is the sum of both.
C6_Witness ==
    /\ pc = "done"
    /\ LedgerVin = << [txid |-> Some("p1"), vout |-> Some(0)],
                      [txid |-> Some("p1"), vout |-> Some(2)] >>
    /\ input_addresses_str = AddrA
    /\ total_input_value = 800000000
    /\ file_content[2] = "Miner's Input Address: bcrt1qminera"

\* C7: for a transaction with no change output (no output with an address
\* other than the known recipient's) the report carries, between the
\* Trader's lines and the fee line, exactly the lines "Miner's Change
\* Address: None" and "Miner's Change Amount (in BTC): 0.0", nothing was
\* designated as change, and the run goes on without an error.
C7_NoChangeLines ==
    (ReportBuilt /\ ChangePositions = {}) =>
        /\ miner_change_output = None
        /\ err = None
        /\ Len(output_string) = 8 + (IF RecipientPositions = {} THEN 0 ELSE 2)
        /\ SubSeq(output_string, Len(output_string) - 4, Len(output_string) - 3)
             = << "Miner's Change Address: None",
                  "Miner's Change Amount (in BTC): 0.0" >>
        /\ pc = "done" => file_content = output_string

\* C7 witness: a single output, to the known recipient, and the report is
\* written with the two "None" / "0.0" lines.
C7_Witness ==
    /\ pc = "done"
    /\ out_file = "written"
    /\ LedgerVout = << [value |-> 200000000, address |-> Some(trader_address)] >>
    /\ file_content[6] = "Miner's Change Address: None"
    /\ file_content[7] = "Miner's Change Amount (in BTC): 0.0"

\* C8 as stated: with two or more outputs to the known recipient, the
\* designated recipient output is the first of them in output order.
C8_FirstRecipientWins ==
    (OutputsScanned /\ Cardinality(RecipientPositions) >= 2) =>
        trader_output = Designated(Min(RecipientPositions))

\* C8 amended: the designated recipient output, and the "Trader's Output"
\* lines of the report, are those of the last output to the known recipient
\* in output order; with no such output nothing is designated and the lines
\* are absent.
C8_LastRecipientWins ==
    /\ OutputsScanned =>
         trader_output = IF RecipientPositions = {} THEN None
                         ELSE Designated(Max(RecipientPositions))
    /\ (ReportBuilt /\ RecipientPositions # {}) =>
         SubSeq(output_string, 4, 5)
           = << "Trader's Output Address: " \o trader_address,
                "Trader's Output Amount (in BTC): "
                   \o BtcString(LedgerVout[Max(RecipientPositions)].value) >>
    /\ (ReportBuilt /\ RecipientPositions = {}) => Len(output_string) = 8

\* C8 witness: two outputs to the recipient, 2 BTC then 1 BTC; the report
\* names the second.
C8_Witness ==
    /\ pc = "done"
    /\ LedgerVout = << [value |-> 200000000, address |-> Some(trader_address)],
                       [value |-> 100000000, address |-> Some(trader_address)] >>
    /\ trader_output = Some([amount |-> 100000000, address |-> trader_address])
    /\ file_content[5] = "Trader's Output Amount (in BTC): 1"

\* C9: the designated change output is the last output, in output order,
\* with an address other than the known recipient's; several such outputs
\* are not rejected or flagged (no error is raised), and an output without
\* an address is never designated.
C9_LastChangeWins ==
    OutputsScanned =>
        /\ miner_change_output = IF ChangePositions = {} THEN None
                                 ELSE Designated(Max(ChangePositions))
        /\ err = None
        /\ (ReportBuilt /\ ChangePositions # {}) =>
             output_string[Len(output_string) - 4]
               = "Miner's Change Address: "
                    \o LedgerVout[Max(ChangePositions)].address[1]

\* C9 witness: two outputs to two other addresses; the second is the change
\* of the written report.
C9_Witness ==
    /\ pc = "done"
    /\ LedgerVout = << [value |-> 299990000, address |-> Some(AddrA)],
                       [value |-> 150000000, address |-> Some(AddrB)] >>
    /\ miner_change_output = Some([amount |-> 150000000, address |-> AddrB])
    /\ file_content[4] = "Miner's Change Address: bcrt1qminerb"
    /\ file_content[5] = "Miner's Change Amount (in BTC): 1.5"

\* C10: create_or_load_wallet creates a wallet only when loading failed
\* because the wallet is not on disk; after a load failure for any other
\* reason no creation is attempted and main has ended with that error.
C10_CreateOnlyWhenMissing ==
    /\ pc = "create_wallet" => load_err = Some("not_found")
    /\ (IsSome(load_err) /\ load_err # Some("not_found")) =>
           pc = "failed" /\ err = Some("load_wallet")
====
